---- MODULE Spec2Model ----
(***************************************************************************)
(* Encrypted per-user record store of the sensitive-data feature:          *)
(*   - the cipher component (utils/encryption: encryptData, decryptData),  *)
(*   - the record store (utils/secureStorage: save/get/update/delete       *)
(*     SensitiveUserData over getUserData / saveUserData),                 *)
(*   - the API route /api/user/sensitive-data that dispatches to it.       *)
(*                                                                         *)
(* Strings are sequences of one-character strings.  A JSON text is a       *)
(* sequence of symbols (braces, keys, atoms); utf8 maps a symbol to one    *)
(* byte.  Bytes are 0..255 and are hex-encoded with two digits each, as    *)
(* Buffer.toString('hex') / Buffer.from(s, 'hex') do.                      *)
(***************************************************************************)
EXTENDS Integers, Sequences, FiniteSets, TLC

VARIABLES
  ENCRYPTION_KEY,   \* process.env.ENCRYPTION_KEY, read once at module load
  files,            \* data/users/<userId>.json : content of each user's file
  readable,         \* environment: can the user's file be opened for reading
  disk,             \* environment: "ok", "denied" (open fails) or "full"
  now,              \* the clock read by new Date()
  pc,               \* per request: position in the handler
  session,          \* per request: what getSession resolved to
  method,           \* per request: req.method
  body,             \* per request: req.body
  existing,         \* per request: the envelope the last getUserData returned
  merged,           \* per request: updatedData of updateSensitiveUserData
  response,         \* per request: the response sent
  invoked,          \* per request: the record-store operations it called
  base,             \* per request: existingData of updateSensitiveUserData
  reqId,            \* per request: its number in order of arrival
  ioFailed,         \* per request: did a file read or write of it fail
  started,          \* number of requests received so far
  lastWrite,        \* per user: the last write that landed on the user's file:
                    \* the operation, the request, the number of requests
                    \* that had arrived by then, the record written (for a
                    \* delete, the record that was removed) and the record
                    \* that was stored just before
  cPlain,           \* cipher harness: the plaintext given to encryptData
  cToken,           \* cipher harness: the token given to decryptData
  cResult,          \* cipher harness: what decryptData returned
  cPhase,           \* cipher harness: "idle", "token" or "decrypted"
  isAuthenticated,  \* useSensitiveData: isAuthenticated of useAuth
  isLoading,        \* useSensitiveData: the isLoading state
  hookError,        \* useSensitiveData: the error state
  hookData,         \* useSensitiveData: the data state
  callPc,           \* per call of the hook's functions: its position
  callKind,         \* per call: "fetch", "save", "update" or "delete"
  callArg           \* per call: newData / updates

storeVars == <<files, readable, disk, now, pc, session, method, body, existing,
               merged, response, invoked, base, reqId, ioFailed, started,
               lastWrite>>
cipherVars == <<cPlain, cToken, cResult, cPhase>>
hookVars == <<isAuthenticated, isLoading, hookError, hookData, callPc,
              callKind, callArg>>
vars == <<ENCRYPTION_KEY, storeVars, cipherVars, hookVars>>

----------------------------------------------------------------------------
(* Bounds of the model *)

NumIVs == 2        \* distinct values crypto.randomBytes can draw for an IV
MaxClock == 2      \* the clock runs 1..MaxClock
MaxRequests == 3   \* requests received in one behaviour
MaxInFlight == 2   \* requests that can be in progress at once
MaxPlainLen == 2   \* cipher harness: symbols in a plaintext
MaxCalls == 2      \* calls of the hook's functions that can overlap

----------------------------------------------------------------------------
(* Program constants *)

ENCRYPTION_IV_LENGTH == 16
ENCRYPTION_TAG_LENGTH == 16
CURRENT_ENCRYPTION_VERSION == "1.0"

----------------------------------------------------------------------------
(* Hex encoding: Buffer.toString('hex') and Buffer.from(s, 'hex') *)

HexDigits == <<"0", "1", "2", "3", "4", "5", "6", "7",
               "8", "9", "a", "b", "c", "d", "e", "f">>

HexSet == {HexDigits[k] : k \in 1..16}

IsHex(c) == c \in HexSet

HexValue == [c \in HexSet |-> (CHOOSE k \in 1..16 : HexDigits[k] = c) - 1]

HexVal(c) == HexValue[c]

\* two digits per byte, high nibble first
toHex(bytes) ==
  [j \in 1..(2 * Len(bytes)) |->
     IF j % 2 = 1 THEN HexDigits[(bytes[(j + 1) \div 2] \div 16) + 1]
                  ELSE HexDigits[(bytes[j \div 2] % 16) + 1]]

\* decoding stops at the first pair that is not two hex digits; a trailing
\* single digit is dropped
fromHex(s) ==
  LET pairs == 1..(Len(s) \div 2)
      bad == {k \in pairs : ~IsHex(s[2 * k - 1]) \/ ~IsHex(s[2 * k])}
      n == IF bad = {} THEN Len(s) \div 2
           ELSE (CHOOSE k \in bad : \A q \in bad : k <= q) - 1
  IN [j \in 1..n |-> HexVal(s[2 * j - 1]) * 16 + HexVal(s[2 * j])]

----------------------------------------------------------------------------
(* String.prototype.split(':') and array destructuring *)

split(s) ==
  LET cols == {j \in 1..Len(s) : s[j] = ":"}
      n == Cardinality(cols) + 1
      pos(k) == IF k = 0 THEN 0
                ELSE IF k = n THEN Len(s) + 1
                ELSE CHOOSE p \in cols : Cardinality({q \in cols : q < p}) = k - 1
  IN [k \in 1..n |-> SubSeq(s, pos(k - 1) + 1, pos(k) - 1)]

\* const [a, b, c] = parts : a missing element is undefined, which is falsy
\* like the empty string; both are the empty sequence here
Element(parts, k) == IF k <= Len(parts) THEN parts[k] ELSE <<>>

----------------------------------------------------------------------------
(* UTF-8: one byte per symbol of a JSON text *)

SymTable == <<"{", "}", "[", "]", "0", "fullName", "phoneNumber",
              "A", "B", "null", "true", "7">>

utf8(text) ==
  [j \in 1..Len(text) |->
     64 + (CHOOSE k \in 1..Len(SymTable) : SymTable[k] = text[j])]

\* a byte that encodes no symbol decodes to the replacement character
fromUtf8(bytes) ==
  [j \in 1..Len(bytes) |->
     IF bytes[j] > 64 /\ bytes[j] <= 64 + Len(SymTable)
     THEN SymTable[bytes[j] - 64] ELSE "?"]

----------------------------------------------------------------------------
(* AES-256-GCM of Node's crypto, as a keyed stream cipher with a tag over   *)
(* key, IV and ciphertext                                                  *)

RECURSIVE SumTo(_, _)
SumTo(seq, n) == IF n = 0 THEN 0 ELSE seq[n] + SumTo(seq, n - 1)

Sum(seq) == SumTo(seq, Len(seq))

\* the keystream byte at position j is (seed + 7 * j) % 256
gcmSeed(key, iv) == (Sum(key) + 3 * Sum(iv)) % 256

gcmEncrypt(key, iv, plain) ==
  LET seed == gcmSeed(key, iv)
  IN [j \in 1..Len(plain) |-> (plain[j] + seed + 7 * j) % 256]

gcmDecrypt(key, iv, ct) ==
  LET seed == gcmSeed(key, iv)
  IN [j \in 1..Len(ct) |-> (ct[j] + 512 - seed - ((7 * j) % 256)) % 256]

gcmTag(key, iv, ct) ==
  LET mac == Sum(key) + 5 * Sum(iv) + 11 * Sum(ct) + Len(ct)
  IN [j \in 1..ENCRYPTION_TAG_LENGTH |-> (mac + j) % 256]

\* createCipheriv / createDecipheriv throw on a key that is not 32 bytes
\* and on an empty IV
cipherAccepts(key, iv) == Len(key) = 32 /\ Len(iv) > 0

\* the values crypto.randomBytes(ENCRYPTION_IV_LENGTH) is drawn from
IVs == {[j \in 1..ENCRYPTION_IV_LENGTH |-> (17 * r + j) % 256] : r \in 1..NumIVs}

\* a key as scripts/generate-encryption-key.js prints it: 32 bytes in hex
GeneratedKey == [j \in 1..64 |-> HexDigits[((5 * j) % 16) + 1]]

----------------------------------------------------------------------------
(* utils/encryption *)

Thrown(kind, used) == [kind |-> kind, value |-> <<>>, cipher |-> used]
Returned(value, used) == [kind |-> "ok", value |-> value, cipher |-> used]

encryptData(data, iv) ==
  IF ENCRYPTION_KEY = <<>> THEN Thrown("config", FALSE)
  ELSE LET key == fromHex(ENCRYPTION_KEY) IN
       IF ~cipherAccepts(key, iv) THEN Thrown("cipher", TRUE)
       ELSE LET encrypted == gcmEncrypt(key, iv, utf8(data))
                authTag == gcmTag(key, iv, encrypted)
            IN Returned(toHex(iv) \o <<":">> \o toHex(encrypted) \o <<":">>
                          \o toHex(authTag), TRUE)

decryptData(encryptedData) ==
  IF ENCRYPTION_KEY = <<>> THEN Thrown("config", FALSE)
  ELSE LET parts == split(encryptedData)
           ivHex == Element(parts, 1)
           encrypted == Element(parts, 2)
           authTagHex == Element(parts, 3)
       IN IF ivHex = <<>> \/ encrypted = <<>> \/ authTagHex = <<>>
          THEN Thrown("format", FALSE)
          ELSE LET iv == fromHex(ivHex)
                   authTag == fromHex(authTagHex)
                   key == fromHex(ENCRYPTION_KEY)
               IN IF ~cipherAccepts(key, iv) THEN Thrown("cipher", TRUE)
                  ELSE LET ct == fromHex(encrypted) IN
                       IF authTag # gcmTag(key, iv, ct)
                       THEN Thrown("cipher", TRUE)
                       ELSE Returned(fromUtf8(gcmDecrypt(key, iv, ct)), TRUE)

----------------------------------------------------------------------------
(* JSON values.  A value is [t, s, m]: t its type, s the scalar, m the     *)
(* members of an object or the elements of an array keyed "0", "1", ...    *)

Users == {"u1", "u2"}
Atoms == {"A", "B"}
KeyOrder == <<"0", "fullName", "phoneNumber">>
KeySet == {KeyOrder[k] : k \in 1..Len(KeyOrder)}
EmptyMap == [k \in {} |-> "A"]

JNull == [t |-> "null", s |-> "null", m |-> EmptyMap]
JStr(a) == [t |-> "str", s |-> a, m |-> EmptyMap]
JNum(a) == [t |-> "num", s |-> a, m |-> EmptyMap]
JBool(a) == [t |-> "bool", s |-> a, m |-> EmptyMap]
JObj(m) == [t |-> "obj", s |-> "", m |-> m]
JArr(m) == [t |-> "arr", s |-> "", m |-> m]

\* typeof v === 'object' is true of objects, of arrays and of null
typeofObject(v) == v.t \in {"obj", "arr", "null"}

\* !v : null, the empty string, 0 and false are falsy
falsy(v) == v.t = "null" \/ (v.t = "str" /\ v.s = "") \/
            (v.t = "num" /\ v.s = "0") \/ (v.t = "bool" /\ v.s = "false")

\* the own enumerable properties an object spread {...v} copies
spread(v) ==
  IF v.t \in {"obj", "arr"} THEN v.m
  ELSE IF v.t = "str" /\ v.s # "" THEN [k \in {"0"} |-> v.s]
  ELSE EmptyMap

\* { ...b, ...a } : the spreads in the wrong order
spreadUnder(a, b) ==
  LET ma == spread(a)
      mb == spread(b)
  IN JObj([k \in (DOMAIN ma) \cup (DOMAIN mb) |->
             IF k \in DOMAIN ma THEN ma[k] ELSE mb[k]])

\* { ...a, ...b }
spreadOver(a, b) ==
  LET ma == spread(a)
      mb == spread(b)
  IN JObj([k \in (DOMAIN ma) \cup (DOMAIN mb) |->
             IF k \in DOMAIN mb THEN mb[k] ELSE ma[k]])

RECURSIVE members(_, _, _)
members(m, i, withKeys) ==
  IF i > Len(KeyOrder) THEN <<>>
  ELSE (IF KeyOrder[i] \in DOMAIN m
        THEN (IF withKeys THEN <<KeyOrder[i]>> ELSE <<>>) \o <<m[KeyOrder[i]]>>
        ELSE <<>>) \o members(m, i + 1, withKeys)

\* JSON.stringify(data) of a sensitive record
stringify(v) ==
  IF v.t = "obj" THEN <<"{">> \o members(v.m, 1, TRUE) \o <<"}">>
  ELSE IF v.t = "arr" THEN <<"[">> \o members(v.m, 1, FALSE) \o <<"]">>
  ELSE <<v.s>>

ParseError == [ok |-> FALSE, v |-> JNull]
Parsed(v) == [ok |-> TRUE, v |-> v]

\* JSON.parse(text)
parse(text) ==
  LET n == Len(text)
      inner == (n - 2) \div 2
  IN IF n >= 2 /\ text[1] = "{" /\ text[n] = "}"
     THEN IF n % 2 = 0 /\ \A j \in 1..inner :
                             text[2 * j] \in KeySet /\ text[2 * j + 1] \in Atoms
          THEN Parsed(JObj([k \in {text[2 * j] : j \in 1..inner} |->
                  text[2 * (CHOOSE j \in 1..inner : text[2 * j] = k /\
                         \A q \in 1..inner : text[2 * q] = k => q <= j) + 1]]))
          ELSE ParseError
     ELSE IF n >= 2 /\ text[1] = "[" /\ text[n] = "]"
     THEN IF n - 2 <= 1 /\ \A j \in 2..(n - 1) : text[j] \in Atoms
          THEN Parsed(JArr([k \in {KeyOrder[j] : j \in 1..(n - 2)} |-> text[2]]))
          ELSE ParseError
     ELSE IF n = 1 /\ text[1] = "null" THEN Parsed(JNull)
     ELSE IF n = 1 /\ text[1] = "true" THEN Parsed(JBool("true"))
     ELSE IF n = 1 /\ text[1] = "7" THEN Parsed(JNum("7"))
     ELSE IF n = 1 /\ text[1] \in Atoms THEN Parsed(JStr(text[1]))
     ELSE ParseError

----------------------------------------------------------------------------
(* utils/types : UserData, the envelope.  An optional field is             *)
(* [st, v] with st "val", "undef" (the key holds undefined) or "absent".   *)

Val(x) == [st |-> "val", v |-> x]
NoString(st) == [st |-> st, v |-> ""]
NoToken(st) == [st |-> st, v |-> <<>>]
NoMetadata(st) == [st |-> st, v |-> [updatedAt |-> 0, version |-> ""]]

BlankEnvelope ==
  [id |-> "", email |-> "", name |-> NoString("absent"),
   image |-> NoString("absent"), createdAt |-> 0, updatedAt |-> 0,
   encryptedData |-> NoToken("absent"),
   encryptionMetadata |-> NoMetadata("absent")]

\* what getUserData resolves to: null or a UserData
Null == [isNull |-> TRUE, env |-> BlankEnvelope]
Data(env) == [isNull |-> FALSE, env |-> env]

\* a file: missing, unparseable content, or the JSON text of an envelope
NoFile == [kind |-> "none", env |-> BlankEnvelope]
BadFile == [kind |-> "bad", env |-> BlankEnvelope]

\* JSON.stringify leaves out the keys that hold undefined
dropUndefined(opt) == IF opt.st = "undef" THEN [opt EXCEPT !.st = "absent"] ELSE opt

\* JSON.stringify(userData, null, 2)
stringifyUserData(userData) ==
  [kind |-> "json",
   env |-> [userData EXCEPT
              !.name = dropUndefined(@),
              !.image = dropUndefined(@),
              !.encryptedData = dropUndefined(@),
              !.encryptionMetadata = dropUndefined(@)]]

\* an account's envelope before any sensitive data was saved for it
ProfileOnly(u) ==
  [BlankEnvelope EXCEPT !.id = u, !.email = "mail", !.name = Val("name"),
                        !.createdAt = 1, !.updatedAt = 1]

----------------------------------------------------------------------------
(* utils/secureStorage : the file primitives *)

\* the '/'-separated segments of a user id; the ids of Users are plain names
idSegments(userId) == IF userId = "./u2" THEN <<".", "u2">> ELSE <<userId>>

\* path.join normalises the path: a "." segment is dropped and a ".."
\* segment removes the segment before it
RECURSIVE normalize(_, _)
normalize(segs, acc) ==
  IF segs = <<>> THEN acc
  ELSE IF Head(segs) = "." THEN normalize(Tail(segs), acc)
  ELSE IF Head(segs) = ".." /\ acc # <<>>
  THEN normalize(Tail(segs), SubSeq(acc, 1, Len(acc) - 1))
  ELSE normalize(Tail(segs), Append(acc, Head(segs)))

\* path.join(STORAGE_DIR, `${userId}.json`): the file the user id names
filePath(userId) ==
  LET segs == normalize(idSegments(userId), <<>>)
  IN IF Len(segs) = 1 THEN segs[1] ELSE userId

\* resolves to null when the file is missing, and also when reading or
\* parsing it throws: the catch logs and returns null
getUserData(userId) ==
  LET path == filePath(userId)
      f == IF path \in DOMAIN files THEN files[path] ELSE NoFile IN
  IF f.kind = "none" THEN [value |-> Null, caught |-> FALSE]
  ELSE IF path \in DOMAIN readable /\ ~readable[path] THEN [value |-> Null, caught |-> TRUE]
  ELSE IF f.kind = "bad" THEN [value |-> Null, caught |-> TRUE]
  ELSE [value |-> Data(f.env), caught |-> FALSE]

\* fs.writeFileSync truncates the file and writes it whole.  With the disk
\* "denied" the open fails and the file is untouched; with the disk "full"
\* the file is left truncated.  Either way the error is rethrown.
saveUserData(userId, userData) ==
  IF disk = "ok"
  THEN [files |-> [files EXCEPT ![filePath(userId)] =
                     stringifyUserData(userData)],
        thrown |-> FALSE]
  ELSE IF disk = "denied" THEN [files |-> files, thrown |-> TRUE]
  ELSE [files |-> [files EXCEPT ![filePath(userId)] = BadFile],
        thrown |-> TRUE]

----------------------------------------------------------------------------
(* utils/secureStorage : the record operations, each split at its awaits *)

\* createdAt: existingData?.createdAt || new Date().toISOString()
createdAtOf(existingData) ==
  IF existingData.isNull \/ existingData.env.createdAt = 0
  THEN now ELSE existingData.env.createdAt

\* the new fields first and ...existingData last, so that the existing
\* payload wins over the new one
buildUserDataSpreadLast(userId, existingData, encryptedData) ==
  IF ~existingData.isNull /\ existingData.env.encryptedData.st = "val"
  THEN existingData.env
  ELSE [(IF existingData.isNull THEN BlankEnvelope ELSE existingData.env) EXCEPT
          !.id = userId,
          !.email = IF existingData.isNull THEN "" ELSE existingData.env.email,
          !.createdAt = createdAtOf(existingData),
          !.updatedAt = now,
          !.encryptedData = Val(encryptedData),
          !.encryptionMetadata =
             Val([updatedAt |-> now, version |-> CURRENT_ENCRYPTION_VERSION])]

\* the userData object saveSensitiveUserData builds
buildUserData(userId, existingData, encryptedData) ==
  [(IF existingData.isNull THEN BlankEnvelope ELSE existingData.env) EXCEPT
     !.id = userId,
     !.email = IF existingData.isNull THEN "" ELSE existingData.env.email,
     !.createdAt = createdAtOf(existingData),
     !.updatedAt = now,
     !.encryptedData = Val(encryptedData),
     !.encryptionMetadata =
        Val([updatedAt |-> now, version |-> CURRENT_ENCRYPTION_VERSION])]

\* a save that refuses to write when the envelope changed since it was read
saveSensitiveUserDataChecked(userId, data, existingData, iv) ==
  LET enc == encryptData(stringify(data), iv) IN
  IF enc.kind # "ok" \/ getUserData(userId).value # existingData
  THEN [files |-> files, thrown |-> TRUE, io |-> FALSE]
  ELSE LET w == saveUserData(userId,
                             buildUserData(userId, existingData, enc.value))
       IN [files |-> w.files, thrown |-> w.thrown, io |-> w.thrown]

\* saveSensitiveUserData after its await of getUserData
saveSensitiveUserData(userId, data, existingData, iv) ==
  LET enc == encryptData(stringify(data), iv) IN
  IF enc.kind # "ok" THEN [files |-> files, thrown |-> TRUE, io |-> FALSE]
  ELSE LET w == saveUserData(userId,
                             buildUserData(userId, existingData, enc.value))
       IN [files |-> w.files, thrown |-> w.thrown, io |-> w.thrown]

\* a load that answers the empty record where there is no payload
decryptUserDataOrEmpty(userData) ==
  IF userData.isNull \/ userData.env.encryptedData.st # "val"
     \/ userData.env.encryptedData.v = <<>>
  THEN [thrown |-> FALSE, v |-> JObj(EmptyMap)]
  ELSE LET dec == decryptData(userData.env.encryptedData.v) IN
       IF dec.kind # "ok" THEN [thrown |-> TRUE, v |-> JNull]
       ELSE LET p == parse(dec.value) IN
            IF ~p.ok THEN [thrown |-> TRUE, v |-> JNull]
            ELSE [thrown |-> FALSE, v |-> p.v]

\* getSensitiveUserData after its await of getUserData
decryptUserData(userData) ==
  IF userData.isNull \/ userData.env.encryptedData.st # "val"
     \/ userData.env.encryptedData.v = <<>>
  THEN [thrown |-> FALSE, v |-> JNull]
  ELSE LET dec == decryptData(userData.env.encryptedData.v) IN
       IF dec.kind # "ok" THEN [thrown |-> TRUE, v |-> JNull]
       ELSE LET p == parse(dec.value) IN
            IF ~p.ok THEN [thrown |-> TRUE, v |-> JNull]
            ELSE [thrown |-> FALSE, v |-> p.v]

\* getSensitiveUserData run without interruption on the current files
getSensitiveUserData(userId) == decryptUserData(getUserData(userId).value)

\* existingData of updateSensitiveUserData: (await get...) || {}
existingOrEmpty(v) == IF falsy(v) THEN JObj(EmptyMap) ELSE v

\* a delete that starts the envelope over, keeping the id alone
clearedUserDataReset(userData) ==
  [BlankEnvelope EXCEPT !.id = userData.id, !.updatedAt = now]

\* a delete that clears the payload and leaves its metadata
clearedUserDataPayloadOnly(userData) ==
  [userData EXCEPT !.encryptedData = NoToken("undef"), !.updatedAt = now]

\* the updatedUserData object deleteSensitiveUserData builds
clearedUserData(userData) ==
  [userData EXCEPT !.encryptedData = NoToken("undef"),
                   !.encryptionMetadata = NoMetadata("undef"),
                   !.updatedAt = now]

\* deleteSensitiveUserData after its await of getUserData
deleteSensitiveUserData(userId, userData) ==
  IF userData.isNull THEN [files |-> files, thrown |-> FALSE, wrote |-> FALSE]
  ELSE LET w == saveUserData(userId, clearedUserData(userData.env))
       IN [files |-> w.files, thrown |-> w.thrown, wrote |-> ~w.thrown]

----------------------------------------------------------------------------
(* pages/api/user/sensitive-data : the requests *)

Slots == 1..MaxInFlight
Sessions == {"none", "noid"} \cup Users
Methods == {"GET", "POST", "PATCH", "DELETE", "PUT"}

Record1 == JObj([k \in {"fullName", "phoneNumber"} |-> "A"])
Record2 == JObj([k \in {"phoneNumber"} |-> "B"])
EmptyRecord == JObj(EmptyMap)
Arrays == {JArr([k \in {"0"} |-> "A"])}
Scalars == {JNull, JStr("A"), JNum("7"), JBool("true")}

Request(s, m, b) == [session |-> s, method |-> m, body |-> b]

\* the requests of signed-in users with a record as body
RecordRequests ==
  {Request(u, m, JNull) : u \in Users, m \in {"GET", "DELETE"}}
  \cup {Request(u, "POST", b) : u \in Users, b \in {Record1, EmptyRecord}}
  \cup {Request(u, "PATCH", b) : u \in Users, b \in {Record2, EmptyRecord}}

Resp(status, success, data) ==
  [status |-> status, success |-> success, data |-> data]
NoResponse == Resp(0, FALSE, JNull)
NoWrite == [op |-> "none", req |-> 0, at |-> 0, data |-> JNull, before |-> JNull]

\* !session alone: a session without a user id passes
unauthenticatedNoSession(s) == s = "none"

\* !session || !session.user?.id
unauthenticated(s) == s = "none" \/ s = "noid"

\* !data || typeof data !== 'object'
invalidBody(b) == falsy(b) \/ ~typeofObject(b)

Finish(i, resp) ==
  /\ pc' = [pc EXCEPT ![i] = "done"]
  /\ response' = [response EXCEPT ![i] = resp]
  /\ existing' = [existing EXCEPT ![i] = Null]
  /\ merged' = [merged EXCEPT ![i] = JNull]

Landed(i, op, data) ==
  lastWrite' = [lastWrite EXCEPT ![filePath(session[i])] =
                  [op |-> op, req |-> reqId[i], at |-> started, data |-> data,
                   before |-> getSensitiveUserData(session[i]).v]]

\* a request arrives and the handler awaits getSession; it takes the first
\* slot that is free
Receive(i, inputs) ==
  /\ pc[i] \in {"idle", "done"}
  /\ \A j \in Slots : j < i => pc[j] \notin {"idle", "done"}
  /\ started < MaxRequests
  /\ \E in \in inputs :
       /\ session' = [session EXCEPT ![i] = in.session]
       /\ method' = [method EXCEPT ![i] = in.method]
       /\ body' = [body EXCEPT ![i] = in.body]
  /\ pc' = [pc EXCEPT ![i] = "auth"]
  /\ started' = started + 1
  /\ reqId' = [reqId EXCEPT ![i] = started + 1]
  /\ response' = [response EXCEPT ![i] = NoResponse]
  /\ invoked' = [invoked EXCEPT ![i] = {}]
  /\ base' = [base EXCEPT ![i] = JNull]
  /\ ioFailed' = [ioFailed EXCEPT ![i] = FALSE]
  /\ UNCHANGED <<files, readable, disk, now, existing, merged, lastWrite>>
  /\ UNCHANGED <<ENCRYPTION_KEY, cipherVars, hookVars>>

\* handler: no session, or a session without a user id
Unauthorized(i) ==
  /\ pc[i] = "auth"
  /\ unauthenticated(session[i])
  /\ Finish(i, Resp(401, FALSE, JNull))
  /\ UNCHANGED <<files, readable, disk, now, session, method, body, invoked,
                 base, reqId, ioFailed, started, lastWrite>>
  /\ UNCHANGED <<ENCRYPTION_KEY, cipherVars, hookVars>>

\* handler: the default branch of the switch
MethodNotAllowed(i) ==
  /\ pc[i] = "auth"
  /\ ~unauthenticated(session[i])
  /\ method[i] \notin {"GET", "POST", "PATCH", "DELETE"}
  /\ Finish(i, Resp(405, FALSE, JNull))
  /\ UNCHANGED <<files, readable, disk, now, session, method, body, invoked,
                 base, reqId, ioFailed, started, lastWrite>>
  /\ UNCHANGED <<ENCRYPTION_KEY, cipherVars, hookVars>>

\* handleSaveData / handleUpdateData: the body is not an object
InvalidData(i) ==
  /\ pc[i] = "auth"
  /\ ~unauthenticated(session[i])
  /\ method[i] \in {"POST", "PATCH"}
  /\ invalidBody(body[i])
  /\ Finish(i, Resp(400, FALSE, JNull))
  /\ UNCHANGED <<files, readable, disk, now, session, method, body, invoked,
                 base, reqId, ioFailed, started, lastWrite>>
  /\ UNCHANGED <<ENCRYPTION_KEY, cipherVars, hookVars>>

\* the record operation is called: it runs up to its first await, which is
\* the await of getUserData, whose file read has already happened
Call(i, m, ops, next) ==
  /\ pc[i] = "auth"
  /\ ~unauthenticated(session[i])
  /\ method[i] = m
  /\ LET r == getUserData(session[i]) IN
       /\ existing' = [existing EXCEPT ![i] = r.value]
       /\ ioFailed' = [ioFailed EXCEPT ![i] = r.caught]
  /\ invoked' = [invoked EXCEPT ![i] = ops]
  /\ pc' = [pc EXCEPT ![i] = next]
  /\ UNCHANGED <<files, readable, disk, now, session, method, body, merged,
                 response, base, reqId, started, lastWrite>>
  /\ UNCHANGED <<ENCRYPTION_KEY, cipherVars, hookVars>>

\* handleGetData calls getSensitiveUserData
HandleGet(i) ==
  /\ method[i] = "GET"
  /\ Call(i, "GET", {"load"}, "get_decrypt")

\* handleSaveData validates the body and calls saveSensitiveUserData
HandleSave(i) ==
  /\ ~invalidBody(body[i])
  /\ Call(i, "POST", {"save"}, "save_write")

\* handleUpdateData validates the body and calls updateSensitiveUserData,
\* which calls getSensitiveUserData
HandleUpdate(i) ==
  /\ ~invalidBody(body[i])
  /\ Call(i, "PATCH", {"update", "load"}, "update_load")

\* handleDeleteData calls deleteSensitiveUserData
HandleDelete(i) ==
  /\ method[i] = "DELETE"
  /\ Call(i, "DELETE", {"delete"}, "delete_write")

\* handleGetData after getSensitiveUserData: data: sensitiveData || {}
GetDone(i) ==
  /\ pc[i] = "get_decrypt"
  /\ LET r == decryptUserData(existing[i]) IN
       Finish(i, IF r.thrown THEN Resp(500, FALSE, JNull)
                 ELSE Resp(200, TRUE, existingOrEmpty(r.v)))
  /\ UNCHANGED <<files, readable, disk, now, session, method, body, invoked,
                 base, reqId, ioFailed, started, lastWrite>>
  /\ UNCHANGED <<ENCRYPTION_KEY, cipherVars, hookVars>>

\* saveSensitiveUserData from its await of getUserData to the response
Write(i, at, op, data, status, message) ==
  /\ pc[i] = at
  /\ \E iv \in IVs :
       LET r == saveSensitiveUserData(session[i], data, existing[i], iv) IN
         /\ files' = r.files
         /\ ioFailed' = [ioFailed EXCEPT ![i] = @ \/ r.io]
         /\ IF r.thrown
            THEN Finish(i, Resp(500, FALSE, JNull)) /\ UNCHANGED lastWrite
            ELSE Finish(i, Resp(status, TRUE, JStr(message)))
                 /\ Landed(i, op, data)
  /\ UNCHANGED <<readable, disk, now, session, method, body, invoked, base,
                 reqId, started>>
  /\ UNCHANGED <<ENCRYPTION_KEY, cipherVars, hookVars>>

SaveWrite(i) ==
  /\ pc[i] = "save_write"
  /\ Write(i, "save_write", "save", body[i], 201, "saved")

\* updateSensitiveUserData after getSensitiveUserData: merge, then call
\* saveSensitiveUserData, which reads the envelope again before its await
UpdateMerge(i) ==
  /\ pc[i] = "update_load"
  /\ LET r == decryptUserData(existing[i]) IN
       IF r.thrown
       THEN /\ Finish(i, Resp(500, FALSE, JNull))
            /\ UNCHANGED <<base, invoked, ioFailed>>
       ELSE LET again == getUserData(session[i]) IN
            /\ base' = [base EXCEPT ![i] = existingOrEmpty(r.v)]
            /\ merged' = [merged EXCEPT ![i] =
                            spreadOver(existingOrEmpty(r.v), body[i])]
            /\ existing' = [existing EXCEPT ![i] = again.value]
            /\ ioFailed' = [ioFailed EXCEPT ![i] = @ \/ again.caught]
            /\ invoked' = [invoked EXCEPT ![i] = @ \cup {"save"}]
            /\ pc' = [pc EXCEPT ![i] = "update_write"]
            /\ UNCHANGED response
  /\ UNCHANGED <<files, readable, disk, now, session, method, body, reqId,
                 started, lastWrite>>
  /\ UNCHANGED <<ENCRYPTION_KEY, cipherVars, hookVars>>

UpdateWrite(i) ==
  /\ pc[i] = "update_write"
  /\ Write(i, "update_write", "update", merged[i], 200, "updated")

\* deleteSensitiveUserData from its await of getUserData to the response
DeleteWrite(i) ==
  /\ pc[i] = "delete_write"
  /\ LET r == deleteSensitiveUserData(session[i], existing[i]) IN
       /\ files' = r.files
       /\ ioFailed' = [ioFailed EXCEPT ![i] = @ \/ r.thrown]
       /\ Finish(i, IF r.thrown THEN Resp(500, FALSE, JNull)
                    ELSE Resp(200, TRUE, JStr("deleted")))
       /\ IF r.wrote THEN Landed(i, "delete", decryptUserData(existing[i]).v)
          ELSE UNCHANGED lastWrite
  /\ UNCHANGED <<readable, disk, now, session, method, body, invoked, base,
                 reqId, started>>
  /\ UNCHANGED <<ENCRYPTION_KEY, cipherVars, hookVars>>

\* time passes between two readings of the clock
Tick ==
  /\ now < MaxClock
  /\ now' = now + 1
  /\ UNCHANGED <<files, readable, disk, pc, session, method, body, existing,
                 merged, response, invoked, base, reqId, ioFailed, started,
                 lastWrite>>
  /\ UNCHANGED <<ENCRYPTION_KEY, cipherVars, hookVars>>

----------------------------------------------------------------------------
(* The record store under authenticated requests, on a healthy file system *)

CipherIdle ==
  /\ cPlain = <<>>
  /\ cToken = <<>>
  /\ cResult = Thrown("none", FALSE)
  /\ cPhase = "idle"

\* useState(false), useState(null), useState(null); the session status
\* starts as 'loading'
HookIdle ==
  /\ isAuthenticated = FALSE
  /\ isLoading = FALSE
  /\ hookError = "null"
  /\ hookData = JNull
  /\ callPc = [c \in 1..MaxCalls |-> "idle"]
  /\ callKind = [c \in 1..MaxCalls |-> "fetch"]
  /\ callArg = [c \in 1..MaxCalls |-> JNull]

InitStore ==
  /\ files = [u \in Users |-> IF u = "u1" THEN NoFile
                               ELSE stringifyUserData(ProfileOnly(u))]
  /\ readable = [u \in Users |-> TRUE]
  /\ disk = "ok"
  /\ now = 1
  /\ pc = [i \in Slots |-> "idle"]
  /\ session = [i \in Slots |-> "none"]
  /\ method = [i \in Slots |-> "GET"]
  /\ body = [i \in Slots |-> JNull]
  /\ existing = [i \in Slots |-> Null]
  /\ merged = [i \in Slots |-> JNull]
  /\ response = [i \in Slots |-> NoResponse]
  /\ invoked = [i \in Slots |-> {}]
  /\ base = [i \in Slots |-> JNull]
  /\ reqId = [i \in Slots |-> 0]
  /\ ioFailed = [i \in Slots |-> FALSE]
  /\ started = 0
  /\ lastWrite = [u \in Users |-> NoWrite]

Init ==
  /\ ENCRYPTION_KEY \in {<<>>, GeneratedKey}
  /\ InitStore
  /\ CipherIdle
  /\ HookIdle

Operate(i) ==
  \/ HandleGet(i)
  \/ GetDone(i)
  \/ HandleSave(i)
  \/ SaveWrite(i)
  \/ HandleUpdate(i)
  \/ UpdateMerge(i)
  \/ UpdateWrite(i)
  \/ HandleDelete(i)
  \/ DeleteWrite(i)

Next ==
  \/ \E i \in Slots :
       Receive(i, RecordRequests)
  \/ \E i \in Slots : Operate(i)

Spec == Init /\ [][Next]_vars

----------------------------------------------------------------------------
(* Properties of the record store *)

\* load(u): getSensitiveUserData on the files as they are
load(u) == getSensitiveUserData(u)

\* C1: when the last write that landed on u's file is a save of record r,
\* load(u) returns r, and so does every GET of u that arrived after that write
RoundTrip ==
  \A u \in Users :
    (ENCRYPTION_KEY # <<>> /\ lastWrite[u].op = "save") =>
      /\ load(u) = [thrown |-> FALSE, v |-> lastWrite[u].data]
      /\ \A i \in Slots :
           (pc[i] = "done" /\ method[i] = "GET" /\ session[i] = u
              /\ reqId[i] > lastWrite[u].at) =>
             response[i] = Resp(200, TRUE, lastWrite[u].data)

RoundTripWitness ==
  \E u \in Users, i \in Slots :
    /\ lastWrite[u].op = "save" /\ lastWrite[u].data = Record1
    /\ load(u).v = Record1
    /\ pc[i] = "done" /\ method[i] = "GET" /\ session[i] = u
    /\ reqId[i] > lastWrite[u].at
    /\ response[i].data = Record1

\* C2: after an update wrote on the record c it had loaded (nothing changed
\* the record between its load and its write), load returns a record with
\* the partial's value for every field of the partial, c's value for every
\* other field of c, and no other field
PartialUpdateMerge ==
  \A i \in Slots :
    (/\ pc[i] = "done" /\ method[i] = "PATCH" /\ response[i].success
     /\ lastWrite[session[i]].req = reqId[i]
     /\ existingOrEmpty(lastWrite[session[i]].before) = base[i])
    => LET c == existingOrEmpty(lastWrite[session[i]].before).m
           p == body[i].m
           r == load(session[i])
       IN /\ ~r.thrown
          /\ r.v.t = "obj"
          /\ DOMAIN r.v.m = (DOMAIN c) \cup (DOMAIN p)
          /\ \A k \in DOMAIN p : r.v.m[k] = p[k]
          /\ \A k \in (DOMAIN c) \ (DOMAIN p) : r.v.m[k] = c[k]

PartialUpdateMergeWitness ==
  \E u \in Users, i \in Slots :
    /\ pc[i] = "done" /\ method[i] = "PATCH" /\ session[i] = u
    /\ response[i].status = 200
    /\ base[i] = Record1 /\ body[i] = Record2
    /\ lastWrite[u].req = reqId[i]
    /\ lastWrite[u].before = Record1
    /\ load(u).v = JObj([k \in {"fullName", "phoneNumber"} |->
                           IF k = "fullName" THEN "A" ELSE "B"])

\* C3: two updates of one user that loaded the same record both succeed, and
\* the record stored after them is that record merged with the partial of
\* the update that wrote last
LastWriterWins ==
  \A i, j \in Slots :
    (/\ i # j /\ ENCRYPTION_KEY # <<>>
     /\ pc[i] = "done" /\ pc[j] = "done"
     /\ method[i] = "PATCH" /\ method[j] = "PATCH"
     /\ session[i] = session[j]
     /\ base[i] # JNull /\ base[i] = base[j]
     /\ lastWrite[session[j]].req = reqId[j])
    => /\ response[i].status = 200
       /\ response[j].status = 200
       /\ load(session[j]) =
            [thrown |-> FALSE, v |-> spreadOver(base[j], body[j])]

\* both loaded Record1; the update that wrote first changed the phone
\* number and the one that wrote last changed nothing: the change is lost
LastWriterWinsWitness ==
  \E i, j \in Slots :
    /\ i # j /\ pc[i] = "done" /\ pc[j] = "done"
    /\ method[i] = "PATCH" /\ method[j] = "PATCH"
    /\ session[i] = session[j]
    /\ base[i] = Record1 /\ base[j] = Record1
    /\ body[i] = Record2 /\ body[j] = EmptyRecord
    /\ response[i].status = 200 /\ response[j].status = 200
    /\ lastWrite[session[j]].req = reqId[j]
    /\ load(session[j]).v = Record1

\* C4: a delete that read an envelope with a payload leaves the envelope in
\* place with the id, email, name, image and createdAt it read, without
\* payload and metadata, and load returns null
DeletePreservesEnvelope ==
  [][\A i \in Slots :
       (/\ pc[i] = "delete_write" /\ pc'[i] = "done"
        /\ ~existing[i].isNull
        /\ existing[i].env.encryptedData.st = "val")
       => LET f == files'[session[i]]
              e == existing[i].env
          IN /\ response'[i] = Resp(200, TRUE, JStr("deleted"))
             /\ f.kind = "json"
             /\ f.env.id = e.id /\ f.env.email = e.email
             /\ f.env.name = e.name /\ f.env.image = e.image
             /\ f.env.createdAt = e.createdAt
             /\ f.env.encryptedData.st = "absent"
             /\ f.env.encryptionMetadata.st = "absent"
             /\ load(session[i])' = [thrown |-> FALSE, v |-> JNull]]_vars

DeletePreservesEnvelopeWitness ==
  \E u \in Users :
    /\ lastWrite[u].op = "delete" /\ lastWrite[u].data = Record1
    /\ files[u].kind = "json"
    /\ files[u].env.email = "mail" /\ files[u].env.name = Val("name")
    /\ files[u].env.encryptedData.st = "absent"
    /\ load(u).v = JNull

\* C5: in every envelope on disk the payload and its metadata are both
\* present or both absent
PayloadWithMetadata ==
  \A u \in Users :
    files[u].kind = "json" =>
      /\ files[u].env.encryptedData.st \in {"val", "absent"}
      /\ files[u].env.encryptionMetadata.st = files[u].env.encryptedData.st

PayloadWithMetadataWitness ==
  \E u, v \in Users :
    /\ lastWrite[u].op = "delete" /\ lastWrite[u].data # JNull
    /\ files[u].env.encryptedData.st = "absent"
    /\ lastWrite[v].op \in {"save", "update"}
    /\ files[v].env.encryptedData.st = "val"

----------------------------------------------------------------------------
(* The record store of one user while the clock advances *)

NextClock ==
  \/ \E i \in Slots :
       Receive(i, {r \in RecordRequests : r.session = "u1"})
  \/ \E i \in Slots : Operate(i)
  \/ Tick

SpecClock == Init /\ [][NextClock]_vars

\* C6: once an envelope is on disk, every later state holds an envelope
\* with the same id and the same createdAt
CreatedOnce ==
  [][\A u \in Users :
       files[u].kind = "json" =>
         /\ files'[u].kind = "json"
         /\ files'[u].env.id = files[u].env.id
         /\ files'[u].env.createdAt = files[u].env.createdAt]_vars

----------------------------------------------------------------------------
(* The API route under every kind of request, one request at a time *)

ApiBodies == {Record1} \cup Arrays \cup Scalars

ApiRequests ==
  {Request(s, m, b) : s \in Sessions, m \in Methods, b \in ApiBodies}

\* no request is in progress
Quiet == \A j \in Slots : pc[j] \in {"idle", "done"}

\* a request arrives while no other is in progress
ReceiveQuiet(i, inputs) ==
  /\ Quiet
  /\ Receive(i, inputs)

NextApi ==
  \/ \E i \in Slots : ReceiveQuiet(i, ApiRequests)
  \/ \E i \in Slots : Unauthorized(i)
  \/ \E i \in Slots : MethodNotAllowed(i)
  \/ \E i \in Slots : InvalidData(i)
  \/ \E i \in Slots : Operate(i)

SpecApi == Init /\ [][NextApi]_vars

\* C7: a request without a session, or with a session without a user id,
\* ends with 401 and success false whatever its method and body, without
\* calling a record operation and without a change to any file
AuthenticationFirst ==
  [][\A i \in Slots :
       (pc[i] = "auth" /\ session[i] \in {"none", "noid"} /\ pc'[i] # "auth")
       => /\ pc'[i] = "done"
          /\ response'[i] = Resp(401, FALSE, JNull)
          /\ invoked'[i] = {}
          /\ ~ioFailed'[i]
          /\ files' = files
          /\ lastWrite' = lastWrite]_vars

AuthenticationFirstWitness ==
  \E i \in Slots :
    /\ pc[i] = "done"
    /\ session[i] = "noid" /\ method[i] = "POST" /\ body[i] = Record1
    /\ response[i] = Resp(401, FALSE, JNull)
    /\ invoked[i] = {}
    /\ started = MaxRequests
    /\ files = [u \in Users |-> IF u = "u1" THEN NoFile
                                ELSE stringifyUserData(ProfileOnly(u))]

\* C8: an authenticated POST or PATCH whose body is not a JSON object ends
\* with 400 and success false, and calls neither save nor update
BodyShapeValidation ==
  \A i \in Slots :
    (/\ pc[i] = "done" /\ ~unauthenticated(session[i])
     /\ method[i] \in {"POST", "PATCH"}
     /\ body[i].t # "obj")
    => /\ response[i] = Resp(400, FALSE, JNull)
       /\ invoked[i] \cap {"save", "update"} = {}

----------------------------------------------------------------------------
(* The cipher component on its own: tokens made by encryptData, tokens     *)
(* damaged afterwards and tokens from elsewhere are given to decryptData    *)

PlainSymbols == {"{", "}", "A"}

RECURSIVE Texts(_)
Texts(n) ==
  IF n = 0 THEN {<<>>}
  ELSE Texts(n - 1) \cup
       {Append(t, c) : t \in {x \in Texts(n - 1) : Len(x) = n - 1},
                       c \in PlainSymbols}

Plaintexts == Texts(MaxPlainLen)

RECURSIVE join(_, _)
join(parts, k) ==
  IF k > Len(parts) THEN <<>>
  ELSE (IF k > 1 THEN <<":">> ELSE <<>>) \o parts[k] \o join(parts, k + 1)

\* s with its first character replaced by one that is no hex digit
nonHexFirst(s) == [j \in 1..Len(s) |-> IF j = 1 THEN "g" ELSE s[j]]

\* the damaged forms of a token
Damaged(token) ==
  LET p == split(token) IN
    {join(<<p[1], p[2]>>, 1),
     join(<<p[1], <<>>, p[3]>>, 1),
     join(<<<<>>, p[2], p[3]>>, 1),
     token \o <<":", "0", "0">>,
     token \o <<"g">>,
     join(<<nonHexFirst(p[1]), p[2], p[3]>>, 1),
     join(<<p[1], nonHexFirst(p[2]), p[3]>>, 1),
     join(<<p[1], p[2], nonHexFirst(p[3])>>, 1)}

\* tokens that encryptData did not make
ForeignTokens ==
  {<<>>, <<":">>, <<":", ":">>, <<"a", "b">>, <<"a", "b", ":", "c", "d">>,
   <<"z", "z", ":", "z", "z", ":", "z", "z">>,
   <<"0", "0", ":", "0", "0", ":", "0", "0">>}

CipherEncrypt ==
  /\ cPhase = "idle"
  /\ \E text \in Plaintexts, iv \in IVs :
       LET r == encryptData(text, iv) IN
         /\ cPlain' = text
         /\ cResult' = r
         /\ cToken' = r.value
         /\ cPhase' = IF r.kind = "ok" THEN "encrypted" ELSE "failed"
  /\ UNCHANGED <<ENCRYPTION_KEY, storeVars, hookVars>>

CipherDamage ==
  /\ cPhase = "encrypted"
  /\ \E token \in Damaged(cToken) :
       /\ token # cToken
       /\ cToken' = token
  /\ cPhase' = "damaged"
  /\ UNCHANGED <<cPlain, cResult>>
  /\ UNCHANGED <<ENCRYPTION_KEY, storeVars, hookVars>>

CipherForeign ==
  /\ cPhase = "idle"
  /\ \E token \in ForeignTokens : cToken' = token
  /\ cPhase' = "foreign"
  /\ UNCHANGED <<cPlain, cResult>>
  /\ UNCHANGED <<ENCRYPTION_KEY, storeVars, hookVars>>

CipherDecrypt ==
  /\ cPhase \in {"encrypted", "damaged", "foreign"}
  /\ cResult' = decryptData(cToken)
  /\ cPhase' = IF cPhase = "encrypted" THEN "decrypted" ELSE "examined"
  /\ UNCHANGED <<cPlain, cToken>>
  /\ UNCHANGED <<ENCRYPTION_KEY, storeVars, hookVars>>

NextCipher ==
  \/ CipherEncrypt
  \/ CipherDamage
  \/ CipherForeign
  \/ CipherDecrypt

SpecCipher == Init /\ [][NextCipher]_vars

\* C9: with a key configured, decryptData of a token that does not split on
\* ':' into exactly three non-empty segments of hex digits throws the format
\* error, and no decipher is created for it
MalformedRejected ==
  (cPhase \in {"decrypted", "examined"} /\ ENCRYPTION_KEY # <<>>) =>
    LET p == split(cToken)
        wellFormed == /\ Len(p) = 3
                      /\ \A k \in 1..Len(p) :
                           /\ p[k] # <<>>
                           /\ \A j \in 1..Len(p[k]) : IsHex(p[k][j])
    IN ~wellFormed => (cResult.kind = "format" /\ ~cResult.cipher)

----------------------------------------------------------------------------
(* The record store on a file system that fails, one request at a time *)

\* the file system starts or stops refusing to open files for writing, or
\* runs out of space
DiskChange ==
  /\ Quiet
  /\ \E d \in {"ok", "denied", "full"} : d # disk /\ disk' = d
  /\ UNCHANGED <<files, readable, now, pc, session, method, body, existing,
                 merged, response, invoked, base, reqId, ioFailed, started,
                 lastWrite>>
  /\ UNCHANGED <<ENCRYPTION_KEY, cipherVars, hookVars>>

\* the permissions of a user's file change
ReadChange ==
  /\ Quiet
  /\ \E u \in Users : readable' = [readable EXCEPT ![u] = ~@]
  /\ UNCHANGED <<files, disk, now, pc, session, method, body, existing,
                 merged, response, invoked, base, reqId, ioFailed, started,
                 lastWrite>>
  /\ UNCHANGED <<ENCRYPTION_KEY, cipherVars, hookVars>>

NextFault ==
  \/ \E i \in Slots : ReceiveQuiet(i, RecordRequests)
  \/ \E i \in Slots : Operate(i)
  \/ DiskChange
  \/ ReadChange

SpecFault == Init /\ [][NextFault]_vars

\* C10: a request during which a read of the envelope failed (the file is
\* there but cannot be read or does not parse) or a write of it failed ends
\* with a failure
StorageFailuresSurface ==
  \A i \in Slots :
    (pc[i] = "done" /\ ioFailed[i]) => response[i] = Resp(500, FALSE, JNull)

\* C11: the step that ends a save, an update or a delete either succeeds,
\* and then one write of the user's envelope landed in it, or answers 500,
\* and then every file is as it was before (no other request runs meanwhile)
NoPartialFailure ==
  [][\A i \in Slots :
       (/\ pc[i] \in {"save_write", "update_load", "update_write",
                      "delete_write"}
        /\ pc'[i] = "done")
       => \/ /\ response'[i].success
             /\ response'[i].status \in {200, 201}
             /\ files'[session[i]].kind = "json"
             /\ lastWrite'[session[i]].req = reqId[i]
             /\ lastWrite[session[i]].req # reqId[i]
          \/ /\ response'[i] = Resp(500, FALSE, JNull)
             /\ files' = files
             /\ lastWrite' = lastWrite]_vars

\* C12: with a key configured, the token encryptData returns for a plaintext
\* x, the empty one included, is accepted by decryptData, which returns x;
\* a token made for x with another IV differs and decrypts to x as well
CipherRoundTrip ==
  /\ cPhase = "decrypted" => cResult = Returned(cPlain, TRUE)
  /\ cPhase = "encrypted" =>
       \A iv \in IVs :
         LET other == encryptData(cPlain, iv).value IN
           /\ toHex(iv) # Element(split(cToken), 1) => other # cToken
           /\ decryptData(other) = Returned(cPlain, TRUE)

\* C13: load(u) returns null when u has no file or the envelope has no
\* payload, and returns the empty record, which is not null, when the last
\* write that landed for u is a save of the empty record
AbsentOrEmpty ==
  \A u \in Users :
    /\ (files[u].kind = "none" \/ files[u].env.encryptedData.st # "val")
         => load(u) = [thrown |-> FALSE, v |-> JNull]
    /\ (ENCRYPTION_KEY # <<>> /\ lastWrite[u].op = "save"
          /\ lastWrite[u].data = EmptyRecord)
         => /\ load(u) = [thrown |-> FALSE, v |-> EmptyRecord]
            /\ load(u).v # JNull

AbsentOrEmptyWitness ==
  \E u, v \in Users :
    /\ lastWrite[u].op = "save" /\ lastWrite[u].data = EmptyRecord
    /\ load(u).v = EmptyRecord
    /\ lastWrite[v].op = "delete" /\ lastWrite[v].data = EmptyRecord
    /\ files[v].kind = "json" /\ files[v].env.encryptedData.st = "absent"
    /\ load(v).v = JNull

----------------------------------------------------------------------------
(* The record store under requests of user ids that are not plain names,   *)
(* overlapping, with and without key and on a disk that may fail           *)

UserIds == Users \cup {"./u2"}

IsolationRequests ==
  {Request(u, m, JNull) : u \in {"u2", "./u2"}, m \in {"GET", "DELETE"}}
  \cup {Request(u, "POST", Record1) : u \in {"u2", "./u2"}}
  \cup {Request(u, "PATCH", Record2) : u \in {"u2", "./u2"}}

NextIsolation ==
  \/ \E i \in Slots : Receive(i, IsolationRequests)
  \/ \E i \in Slots : Operate(i)
  \/ DiskChange

SpecIsolation == Init /\ [][NextIsolation]_vars

\* C14: a step of a request of user u leaves the file of every other user
\* id v as it is (and with it what load(v) returns)
UserIsolation ==
  [][\A i \in Slots, v \in UserIds :
       (/\ pc[i] \notin {"idle", "done"} /\ pc'[i] # pc[i]
        /\ v # session[i])
       => files'[filePath(v)] = files[filePath(v)]]_vars

\* C15: when the last write on u's file is a delete, and a save or update
\* of u that was invoked before that delete completed (the save read another
\* envelope than the one on disk, the update loaded a record) ends, it has
\* not written u's file (so load(u) stays null until a later operation
\* writes), and the update stores no field value of the deleted record again
DeleteNotUndone ==
  [][\A i \in Slots :
       (/\ pc[i] \in {"save_write", "update_write"} /\ pc'[i] = "done"
        /\ response'[i].success
        /\ lastWrite[session[i]].op = "delete"
        /\ IF method[i] = "PATCH" THEN base[i] # EmptyRecord
           ELSE existing[i] # getUserData(session[i]).value)
       => LET deleted == lastWrite[session[i]].data.m
              stored == lastWrite'[session[i]].data.m
          IN /\ lastWrite'[session[i]] = lastWrite[session[i]]
             /\ method[i] = "PATCH" =>
                  \A k \in (DOMAIN deleted) \cap (DOMAIN stored) :
                    stored[k] = deleted[k] => k \in DOMAIN body[i].m]_vars

----------------------------------------------------------------------------
(* hooks/useSensitiveData : the client hook, with the server as a source   *)
(* of responses                                                            *)

Calls == 1..MaxCalls
CallKinds == {"fetch", "save", "update", "delete"}

\* the argument a call is made with: newData, updates, or none
CallArgs(kind) ==
  IF kind = "save" THEN {Record1}
  ELSE IF kind = "update" THEN {Record2}
  ELSE {JNull}

InFlight == {"fetch", "error_json", "json"}

\* the session status changes: signed in, signed out
SessionChange ==
  /\ isAuthenticated' = ~isAuthenticated
  /\ UNCHANGED <<isLoading, hookError, hookData, callPc, callKind, callArg>>
  /\ UNCHANGED <<ENCRYPTION_KEY, storeVars, cipherVars>>

\* a function of the hook is called while not authenticated: it sets the
\* error and returns
CallRefused(c) ==
  /\ callPc[c] \in {"idle", "done"}
  /\ \A b \in Calls : b < c => callPc[b] \in InFlight
  /\ ~isAuthenticated
  /\ \E kind \in CallKinds :
       /\ callKind' = [callKind EXCEPT ![c] = kind]
       /\ callArg' = [callArg EXCEPT ![c] = JNull]
  /\ hookError' = "You must be logged in"
  /\ callPc' = [callPc EXCEPT ![c] = "done"]
  /\ UNCHANGED <<isAuthenticated, isLoading, hookData>>
  /\ UNCHANGED <<ENCRYPTION_KEY, storeVars, cipherVars>>

\* a function of the hook is called: setIsLoading(true), setError(null),
\* and the request is sent
CallStart(c) ==
  /\ callPc[c] \in {"idle", "done"}
  /\ \A b \in Calls : b < c => callPc[b] \in InFlight
  /\ isAuthenticated
  /\ \E kind \in CallKinds : \E arg \in CallArgs(kind) :
       /\ callKind' = [callKind EXCEPT ![c] = kind]
       /\ callArg' = [callArg EXCEPT ![c] = arg]
  /\ isLoading' = TRUE
  /\ hookError' = "null"
  /\ callPc' = [callPc EXCEPT ![c] = "fetch"]
  /\ UNCHANGED <<isAuthenticated, hookData>>
  /\ UNCHANGED <<ENCRYPTION_KEY, storeVars, cipherVars>>

\* catch and finally: setError(message), setIsLoading(false)
Failed(c, message) ==
  /\ hookError' = message
  /\ isLoading' = FALSE
  /\ callPc' = [callPc EXCEPT ![c] = "done"]
  /\ UNCHANGED <<isAuthenticated, hookData, callKind, callArg>>
  /\ UNCHANGED <<ENCRYPTION_KEY, storeVars, cipherVars>>

\* the data is set, then finally: setIsLoading(false)
Succeeded(c, value) ==
  /\ hookData' = value
  /\ isLoading' = FALSE
  /\ callPc' = [callPc EXCEPT ![c] = "done"]
  /\ UNCHANGED <<isAuthenticated, hookError, callKind, callArg>>
  /\ UNCHANGED <<ENCRYPTION_KEY, storeVars, cipherVars>>

\* fetch rejects
FetchFails(c) ==
  /\ callPc[c] = "fetch"
  /\ Failed(c, "Failed to fetch")

\* fetch resolves with a response that is not ok: await response.json()
FetchNotOk(c) ==
  /\ callPc[c] = "fetch"
  /\ callPc' = [callPc EXCEPT ![c] = "error_json"]
  /\ UNCHANGED <<isAuthenticated, isLoading, hookError, hookData, callKind,
                 callArg>>
  /\ UNCHANGED <<ENCRYPTION_KEY, storeVars, cipherVars>>

\* the body of the error response: errorData.error || 'Failed to ...'
ErrorBody(c) ==
  /\ callPc[c] = "error_json"
  /\ \E message \in {"Internal server error", "Failed to " \o callKind[c]} :
       Failed(c, message)

\* fetch resolves with an ok response to fetchData: await response.json()
FetchOk(c) ==
  /\ callPc[c] = "fetch"
  /\ callKind[c] = "fetch"
  /\ callPc' = [callPc EXCEPT ![c] = "json"]
  /\ UNCHANGED <<isAuthenticated, isLoading, hookError, hookData, callKind,
                 callArg>>
  /\ UNCHANGED <<ENCRYPTION_KEY, storeVars, cipherVars>>

\* fetchData: setData(result.data)
ResultBody(c) ==
  /\ callPc[c] = "json"
  /\ \E value \in {EmptyRecord, Record1} : Succeeded(c, value)

\* saveData: setData(newData)
SaveOk(c) ==
  /\ callPc[c] = "fetch"
  /\ callKind[c] = "save"
  /\ Succeeded(c, callArg[c])

\* updateData: setData(prevData => ({ ...prevData, ...updates }))
UpdateOk(c) ==
  /\ callPc[c] = "fetch"
  /\ callKind[c] = "update"
  /\ Succeeded(c, spreadOver(hookData, callArg[c]))

\* deleteData: setData(null)
DeleteOk(c) ==
  /\ callPc[c] = "fetch"
  /\ callKind[c] = "delete"
  /\ Succeeded(c, JNull)

NextHook ==
  \/ SessionChange
  \/ \E c \in Calls : CallRefused(c)
  \/ \E c \in Calls : CallStart(c)
  \/ \E c \in Calls : FetchFails(c)
  \/ \E c \in Calls : FetchNotOk(c)
  \/ \E c \in Calls : ErrorBody(c)
  \/ \E c \in Calls : FetchOk(c)
  \/ \E c \in Calls : ResultBody(c)
  \/ \E c \in Calls : SaveOk(c)
  \/ \E c \in Calls : UpdateOk(c)
  \/ \E c \in Calls : DeleteOk(c)

SpecHook == Init /\ [][NextHook]_vars

\* C16: isLoading is true exactly when a call of fetchData, saveData,
\* updateData or deleteData has sent its request and has not finished
LoadingTracksCalls ==
  isLoading <=> \E c \in Calls : callPc[c] \in InFlight

====
